---- MODULE Spec2Model ----
(***************************************************************************)
(* Model of the Bing Ads -> BigQuery job of src/src/app/main.py            *)
(* (class BingAds) as driven by src/src/main.py.                           *)
(*                                                                         *)
(* One run of main(): start() walks the seven report types in order and    *)
(* calls download_and_load_report for each; that method gets the request   *)
(* headers (get_headers -> get_access_token -> _load_tokens /               *)
(* _refresh_access_token -> _save_tokens), submits the report, polls it,   *)
(* downloads the zip, extracts the CSV and loads it with write_to_bq.      *)
(* The token endpoint, the reporting API, the download server and the      *)
(* warehouse are the environment: every response they can give is a        *)
(* nondeterministic choice.                                                *)
(*                                                                         *)
(* Python values: strings are strings, None is NoneVal, numbers are        *)
(* integers (seconds).  Exceptions are modelled by their class name in     *)
(* exc; an exception raised inside download_and_load_report unwinds to the *)
(* handler of start().  The zip and CSV files that earlier report types    *)
(* left in the working directory are not part of the state: every step     *)
(* reads only the file the step before it wrote in the same invocation.    *)
(***************************************************************************)
EXTENDS Integers, Sequences, FiniteSets, TLC

VARIABLES
    pc,               \* position of the run
    idx,              \* index into ReportOrder of the report type being processed
    access_token,     \* BingAds.access_token
    refresh_token,    \* BingAds.refresh_token
    expires_at,       \* BingAds.expires_at
    cache,            \* content of the token cache file (token_cache_file)
    now,              \* time.time(), in seconds since the run began; it advances in the sleep(30) of the poll loop
    headers,          \* local of download_and_load_report: bearer token of the headers, or NoneVal
    report_id,        \* local of download_and_load_report
    url,              \* local of download_and_load_report
    downloaded_file,  \* local of download_and_load_report: [name, content] of the written zip, or NoFile
    saved_file_path,  \* local of download_and_load_report: [name, content] of the extracted CSV, or NoFile
    tables,           \* warehouse: table id -> sequence of loaded rows
    created,          \* warehouse: the tables that exist
    exc,              \* exception in flight ("none" when there is none)
    ret,              \* value the last download_and_load_report call returned (start() discards it)
    calls,            \* history: per step, how often the current invocation attempted it
    failed,           \* history: the first failing step of the current invocation ("none" if none)
    invoked,          \* history: report type -> number of download_and_load_report calls in this run
    lastPoll,         \* history: the last poll request's id and the response to it
    lastTok,          \* history: how get_access_token last returned
    lastLoad,         \* history: the write_to_bq call of the current invocation
    saved,            \* history: _save_tokens wrote the file, and fields and file are untouched since
    sleeps,           \* number of sleep(30) calls so far (bounded by MaxSleeps)
    logged            \* history: tag of the last message written with logger.error / logger.info

tokenVars == <<access_token, refresh_token, expires_at, cache>>
localVars == <<headers, report_id, url, downloaded_file, saved_file_path>>
histVars  == <<calls, failed, invoked, lastPoll, lastTok, lastLoad, saved>>
vars == <<pc, idx, access_token, refresh_token, expires_at, cache, now, headers,
          report_id, url, downloaded_file, saved_file_path, tables, created, exc, ret,
          calls, failed, invoked, lastPoll, lastTok, lastLoad, saved, sleeps, logged>>

-----------------------------------------------------------------------------
(* Bounds and program constants *)

\* sleep(30) calls of the poll loop that one run may make
MaxSleeps == 3

\* get_access_token: the token must outlive time.time() + 60
Margin == 60

\* poll_generate_report: sleep(30)
SleepSecs == 30

-----------------------------------------------------------------------------
(* Python values *)

NoneVal == "None"

\* bool(v) of a str | None
Truthy(v) == v # NoneVal /\ v # ""

\* the insertion order of report_types in start()
ReportOrder == <<"campaign", "adgroup", "account", "ad", "asset", "audience", "conversion">>

ReportTypes == {ReportOrder[i] : i \in 1..Len(ReportOrder)}

\* TableOf with the tables of "adgroup" and "account" exchanged
TableOfSwapped(k) ==
    CASE k = "campaign"   -> "CAMPAIGN_PERFORMANCE_TABLE"
      [] k = "adgroup"    -> "ACCOUNT_PERFORMANCE_TABLE"
      [] k = "account"    -> "ADGROUP_PERFORMANCE_TABLE"
      [] k = "ad"         -> "AD_PERFORMANCE_TABLE"
      [] k = "asset"      -> "ASSET_PERFORMANCE_TABLE"
      [] k = "audience"   -> "AUDIENCE_PERFORMANCE_TABLE"
      [] k = "conversion" -> "CONVERSION_PERFORMANCE_TABLE"

\* value["table"]: the table configured for a report type (one environment variable each)
TableOf(k) ==
    CASE k = "campaign"   -> "CAMPAIGN_PERFORMANCE_TABLE"
      [] k = "adgroup"    -> "ADGROUP_PERFORMANCE_TABLE"
      [] k = "account"    -> "ACCOUNT_PERFORMANCE_TABLE"
      [] k = "ad"         -> "AD_PERFORMANCE_TABLE"
      [] k = "asset"      -> "ASSET_PERFORMANCE_TABLE"
      [] k = "audience"   -> "AUDIENCE_PERFORMANCE_TABLE"
      [] k = "conversion" -> "CONVERSION_PERFORMANCE_TABLE"

\* value["body"]: the request body of a report type, by its ReportRequest.Type
BodyOf(k) ==
    CASE k = "campaign"   -> "CampaignPerformanceReportRequest"
      [] k = "adgroup"    -> "AdGroupPerformanceReportRequest"
      [] k = "account"    -> "AccountPerformanceReportRequest"
      [] k = "ad"         -> "AdPerformanceReportRequest"
      [] k = "asset"      -> "AssetPerformanceReportRequest"
      [] k = "audience"   -> "AudiencePerformanceReportRequest"
      [] k = "conversion" -> "ConversionPerformanceReportRequest"

Tables == {TableOf(k) : k \in ReportTypes}

-----------------------------------------------------------------------------
(* The token cache file *)

TokenKeys == {"access_token", "refresh_token", "expires_at"}

\* A file is missing, holds bytes json.load cannot decode, holds a JSON value
\* that is not an object, or holds a JSON object with some of the token keys.
\* The value fields of a key that is absent are not part of the content.
File(kind, keys, a, r, e) ==
    [kind |-> kind, keys |-> keys,
     access_token  |-> IF "access_token" \in keys THEN a ELSE NoneVal,
     refresh_token |-> IF "refresh_token" \in keys THEN r ELSE NoneVal,
     expires_at    |-> IF "expires_at" \in keys THEN e ELSE 0]

MissingFile     == File("missing", {}, NoneVal, NoneVal, 0)
UndecodableFile == File("undecodable", {}, NoneVal, NoneVal, 0)
NonObjectFile   == File("nonobject", {}, NoneVal, NoneVal, 0)

\* dict.get(key, default) on the object json.load returned
DictGet(obj, key, default) == IF key \in obj.keys THEN obj[key] ELSE default

\* SaveTokens without the "expires_at" entry of token_data
SaveTokensNoExpiry(a, r, e) == File("object", {"access_token", "refresh_token"}, a, r, e)

\* json.dump(token_data, f, indent=4, sort_keys=True) of _save_tokens
SaveTokens(a, r, e) == File("object", TokenKeys, a, r, e)

\* _load_tokens: what it leaves in the fields and on disk, and what it raises
LoadTokens(file, a, r, e) ==
    CASE file.kind = "missing" ->
           [raised |-> "none", log |-> "[_load_tokens] Cache file not found",
            access_token |-> a, refresh_token |-> r, expires_at |-> e, cache |-> file]
      [] file.kind = "undecodable" ->
           [raised |-> "none", log |-> "[_load_tokens] Error decoding cache file",
            access_token |-> a, refresh_token |-> r, expires_at |-> e, cache |-> MissingFile]
      [] file.kind = "nonobject" ->
           \* token_data.get: a list, string, number or null has no get
           [raised |-> "AttributeError", log |-> "",
            access_token |-> a, refresh_token |-> r, expires_at |-> e, cache |-> file]
      [] file.kind = "object" ->
           [raised |-> "none", log |-> "",
            access_token  |-> DictGet(file, "access_token", NoneVal),
            refresh_token |-> DictGet(file, "refresh_token", NoneVal),
            expires_at    |-> DictGet(file, "expires_at", 0),
            cache |-> file]

\* CachedTokenValid that never accepts the cached token
CachedTokenNeverValid(a, e, t) == FALSE

\* CachedTokenValid without the 60 second margin
CachedTokenValidNoMargin(a, e, t) == Truthy(a) /\ e > t

\* get_access_token: the test that returns the cached token
CachedTokenValid(a, e, t) == Truthy(a) /\ e > t + Margin

-----------------------------------------------------------------------------
(* What the environment can hold or answer *)

AccessTokens  == {"at1", "at2"}
RefreshTokens == {"rt1", "rt2"}

\* expires_in of a token response, in seconds
ExpiresIn == {30, 120}

\* the cache file found by a run: left by the OAuth set-up, by an earlier run,
\* or damaged
InitFiles ==
    {MissingFile, UndecodableFile, NonObjectFile,
     File("object", {}, NoneVal, NoneVal, 0),
     File("object", {"access_token", "refresh_token"}, "at0", "rt0", 0),
     File("object", TokenKeys, "at0", "", 90),
     File("object", TokenKeys, "at0", "rt0", 0),
     File("object", TokenKeys, "at0", "rt0", 60),
     File("object", TokenKeys, "at0", "rt0", 90)}

\* the id the service issues for a submitted body, the URL it serves that
\* report at, and the rows of the CSV in the zip at that URL
ReportIdOf(body) == "rid-" \o body
UrlOf(id) == "url-" \o id
RowsAt(u) == "rows-" \o u

\* the rows of the report of type k
RowsOf(k) == RowsAt(UrlOf(ReportIdOf(BodyOf(k))))

NoFile == [name |-> "", content |-> "none"]

NoPoll == [id |-> NoneVal, kind |-> "none", status |-> "none", url |-> NoneVal]

NoTok == [how |-> "none", token |-> NoneVal, requests |-> 0, rotated |-> NoneVal]

NoLoad == [called |-> FALSE, job |-> "none", ret |-> NoneVal]

\* the rows an earlier run of the job loaded into a table
EarlierRows(t) == <<RowsOf(CHOOSE k \in ReportTypes : TableOf(k) = t)>>

NoCalls == [submit |-> 0, poll |-> 0, download |-> 0, unzip |-> 0, load |-> 0]

-----------------------------------------------------------------------------
(* BingAds.__init__ and main() up to app.start() *)

Init ==
    /\ pc = "main"
    /\ idx = 1
    /\ access_token = ""
    /\ refresh_token = ""
    /\ expires_at = 0
    /\ cache \in InitFiles
    /\ now = 0
    /\ headers = NoneVal
    /\ report_id = NoneVal
    /\ url = NoneVal
    /\ downloaded_file = NoFile
    /\ saved_file_path = NoFile
    /\ created \in {{}, Tables}
    /\ tables = [t \in Tables |-> IF t \in created THEN EarlierRows(t) ELSE <<>>]
    /\ exc = "none"
    /\ ret = NoneVal
    /\ calls = NoCalls
    /\ failed = "none"
    /\ invoked = [k \in ReportTypes |-> 0]
    /\ lastPoll = NoPoll
    /\ lastTok = NoTok
    /\ lastLoad = NoLoad
    /\ saved = FALSE
    /\ sleeps = 0
    /\ logged = ""

-----------------------------------------------------------------------------
(* Control flow helpers *)

\* the report type of the current loop iteration of start()
Cur == ReportOrder[idx]

\* download_and_load_report returns v: its locals go, start() moves to the next key
ReturnDLR(v, msg) ==
    /\ pc' = "loop"
    /\ idx' = idx + 1
    /\ ret' = v
    /\ headers' = NoneVal
    /\ report_id' = NoneVal
    /\ url' = NoneVal
    /\ downloaded_file' = NoFile
    /\ saved_file_path' = NoFile
    /\ logged' = msg
    /\ exc' = exc

\* an exception leaves download_and_load_report and reaches the try of start()
Raise(e) ==
    /\ pc' = "except"
    /\ exc' = e
    /\ headers' = NoneVal
    /\ report_id' = NoneVal
    /\ url' = NoneVal
    /\ downloaded_file' = NoFile
    /\ saved_file_path' = NoFile
    /\ UNCHANGED <<idx, ret, logged>>

-----------------------------------------------------------------------------
(* start(): the report_types dictionary and the loop over it *)

Start ==
    /\ pc = "main"
    /\ pc' = "loop"
    /\ logged' = "Starting automation."
    /\ UNCHANGED <<idx, tokenVars, now, localVars, tables, created, exc, ret, histVars, sleeps>>

\* one iteration of the for loop: the call of download_and_load_report, up to get_headers
Enter ==
    /\ pc = "loop"
    /\ idx <= Len(ReportOrder)
    /\ invoked' = [invoked EXCEPT ![Cur] = @ + 1]
    /\ calls' = NoCalls
    /\ failed' = "none"
    /\ lastPoll' = NoPoll
    /\ lastTok' = NoTok
    /\ lastLoad' = NoLoad
    /\ IF ~Truthy(BodyOf(Cur)) \/ ~Truthy(TableOf(Cur))
         THEN ReturnDLR(FALSE, "[download_and_load_report] Missing body or table_id")
         ELSE /\ pc' = "get_access_token"
              /\ ret' = NoneVal
              /\ logged' = "[download_and_load_report] Fetching performance report"
              /\ UNCHANGED <<idx, localVars, exc>>
    /\ UNCHANGED <<tokenVars, now, tables, created, saved, sleeps>>

-----------------------------------------------------------------------------
(* get_headers -> get_access_token *)

\* get_headers: the bearer token of the headers, or None
GetHeaders(tok) == IF ~Truthy(tok) THEN NoneVal ELSE tok

\* get_headers returns to download_and_load_report ("if not headers")
HaveHeaders(tok) ==
    IF ~Truthy(GetHeaders(tok))
      THEN /\ failed' = "headers"
           /\ ReturnDLR(FALSE, "[download_and_load_report] Missing headers")
      ELSE /\ headers' = GetHeaders(tok)
           /\ pc' = "submit"
           /\ failed' = failed
           /\ UNCHANGED <<idx, report_id, url, downloaded_file, saved_file_path, exc, ret, logged>>

\* get_access_token, line 100: self._load_tokens()
LoadTokensStep ==
    /\ pc = "get_access_token"
    /\ LET res == LoadTokens(cache, access_token, refresh_token, expires_at) IN
         /\ access_token' = res.access_token
         /\ refresh_token' = res.refresh_token
         /\ expires_at' = res.expires_at
         /\ cache' = res.cache
         /\ IF res.raised # "none"
              THEN Raise(res.raised)
              ELSE /\ pc' = "token_check"
                   /\ logged' = IF res.log # "" THEN res.log ELSE logged
                   /\ UNCHANGED <<idx, localVars, exc, ret>>
         /\ saved' = (saved /\ res.cache = cache)
    /\ UNCHANGED <<now, tables, created, calls, failed, invoked, lastPoll, lastLoad, lastTok, sleeps>>

\* get_access_token, lines 101-102: the cached token is returned, no request is made
CachedToken ==
    /\ pc = "token_check"
    /\ CachedTokenValid(access_token, expires_at, now)
    /\ lastTok' = [how |-> "cached", token |-> access_token, requests |-> 0,
                   rotated |-> NoneVal]
    /\ HaveHeaders(access_token)
    /\ UNCHANGED <<tokenVars, now, tables, created, calls, invoked, lastPoll, lastLoad, saved, sleeps>>

\* the answers of the token endpoint: no answer or an error status, or a JSON
\* object that may lack a key
TokenResponse(kind, keys, a, r, e) ==
    [kind |-> kind, keys |-> keys,
     access_token  |-> IF "access_token" \in keys THEN a ELSE NoneVal,
     refresh_token |-> IF "refresh_token" \in keys THEN r ELSE NoneVal,
     expires_in    |-> IF "expires_in" \in keys THEN e ELSE 0]

TokenResponses ==
    {TokenResponse("error", {}, NoneVal, NoneVal, 0)}
    \cup {TokenResponse("ok", {"access_token", "refresh_token", "expires_in"}, a, r, e) :
            a \in AccessTokens, r \in RefreshTokens, e \in ExpiresIn}
    \cup {TokenResponse("ok", ks, "at1", "rt1", 120) :
            ks \in {{"refresh_token", "expires_in"},
                    {"access_token", "expires_in"},
                    {"access_token", "refresh_token"}}}

\* _refresh_access_token on the answer resp: what it returns or raises, and the
\* fields and the cache file it leaves
RefreshAccessToken(a, r, e, file, t, resp) ==
    IF ~Truthy(r)
      THEN [raised |-> "ValueError", ret |-> NoneVal, requests |-> 0,
            access_token |-> a, refresh_token |-> r, expires_at |-> e, cache |-> file]
    ELSE IF resp.kind = "error"
      THEN [raised |-> "none", ret |-> NoneVal, requests |-> 1,
            access_token |-> a, refresh_token |-> r, expires_at |-> e, cache |-> file]
    ELSE IF "access_token" \notin resp.keys
      THEN [raised |-> "none", ret |-> NoneVal, requests |-> 1,
            access_token |-> a, refresh_token |-> r, expires_at |-> e, cache |-> file]
    ELSE IF "refresh_token" \notin resp.keys
      THEN [raised |-> "none", ret |-> NoneVal, requests |-> 1,
            access_token |-> resp.access_token, refresh_token |-> r,
            expires_at |-> e, cache |-> file]
    ELSE IF "expires_in" \notin resp.keys
      THEN [raised |-> "none", ret |-> NoneVal, requests |-> 1,
            access_token |-> resp.access_token, refresh_token |-> resp.refresh_token,
            expires_at |-> e, cache |-> file]
    ELSE [raised |-> "none", ret |-> resp.access_token, requests |-> 1,
          access_token |-> resp.access_token, refresh_token |-> resp.refresh_token,
          expires_at |-> t + resp.expires_in,
          cache |-> SaveTokens(resp.access_token, resp.refresh_token, t + resp.expires_in)]

\* get_access_token, line 104: return self._refresh_access_token()
Refresh ==
    /\ pc = "token_check"
    /\ ~CachedTokenValid(access_token, expires_at, now)
    /\ \E resp \in TokenResponses :
         LET res == RefreshAccessToken(access_token, refresh_token, expires_at, cache, now, resp) IN
           /\ access_token' = res.access_token
           /\ refresh_token' = res.refresh_token
           /\ expires_at' = res.expires_at
           /\ cache' = res.cache
           /\ lastTok' = [how |-> IF res.raised # "none" THEN "raised" ELSE "refreshed",
                          token |-> res.ret, requests |-> res.requests,
                          rotated |-> IF res.requests = 1 THEN resp.refresh_token
                                      ELSE NoneVal]
           /\ saved' = IF res.ret # NoneVal THEN TRUE
                       ELSE saved /\ res.access_token = access_token
                                  /\ res.refresh_token = refresh_token
           /\ IF res.raised # "none"
                THEN Raise(res.raised) /\ failed' = "headers"
                ELSE HaveHeaders(res.ret)
    /\ UNCHANGED <<now, tables, created, calls, invoked, lastPoll, lastLoad, sleeps>>

-----------------------------------------------------------------------------
(* The reporting API, as the job sees it *)

\* answers to GenerateReport/Submit: no answer or an error status, a JSON
\* object with a ReportRequestId (possibly empty), or one without the key
SubmitResponses(body) ==
    {[kind |-> "error", id |-> NoneVal],
     [kind |-> "ok", id |-> ReportIdOf(body)],
     [kind |-> "ok", id |-> ""],
     [kind |-> "nokey", id |-> NoneVal]}

\* submit_download_report on the answer resp
SubmitDownloadReport(resp) ==
    CASE resp.kind = "error" -> [raised |-> "none", ret |-> NoneVal]
      [] resp.kind = "nokey" -> [raised |-> "KeyError", ret |-> NoneVal]
      [] resp.kind = "ok"    -> [raised |-> "none", ret |-> resp.id]

\* NoReportId as "if report_id is None"
NoReportIdNoneOnly(rid) == rid = NoneVal

\* line 626: if not report_id
NoReportId(rid) == ~Truthy(rid)

\* lines 625-628
Submit ==
    /\ pc = "submit"
    /\ calls' = [calls EXCEPT !.submit = @ + 1]
    /\ \E resp \in SubmitResponses(BodyOf(Cur)) :
         LET res == SubmitDownloadReport(resp) IN
           IF res.raised # "none"
             THEN Raise(res.raised) /\ failed' = "submit"
           ELSE IF NoReportId(res.ret)
             THEN /\ failed' = "submit"
                  /\ ReturnDLR(FALSE, "[download_and_load_report] Error submitting report")
           ELSE /\ report_id' = res.ret
                /\ pc' = "poll"
                /\ UNCHANGED <<idx, headers, url, downloaded_file, saved_file_path,
                               exc, ret, logged, failed>>
    /\ UNCHANGED <<tokenVars, now, tables, created, invoked, lastPoll, lastLoad, lastTok, saved, sleeps>>

\* answers to GenerateReport/Poll for the id asked: no answer or an error
\* status, a JSON object without ReportRequestStatus, or a status with the
\* download URL (null while there is none, and for a report without data)
PollResponses(id) ==
    {[kind |-> "error", status |-> "none", url |-> NoneVal],
     [kind |-> "nokey", status |-> "none", url |-> NoneVal],
     [kind |-> "ok", status |-> "Pending", url |-> NoneVal],
     [kind |-> "ok", status |-> "Error", url |-> NoneVal],
     [kind |-> "ok", status |-> "Success", url |-> NoneVal],
     [kind |-> "ok", status |-> "Success", url |-> UrlOf(id)]}

\* PollGenerateReport that also leaves the loop on the status 'Error'
PollExitOnErrorStatus(resp) ==
    CASE resp.kind = "error" -> [exit |-> TRUE, raised |-> "none", ret |-> ""]
      [] resp.kind = "nokey" -> [exit |-> TRUE, raised |-> "KeyError", ret |-> NoneVal]
      [] resp.kind = "ok" ->
           IF resp.status \in {"Success", "Error"}
             THEN [exit |-> TRUE, raised |-> "none", ret |-> resp.url]
             ELSE [exit |-> FALSE, raised |-> "none", ret |-> NoneVal]

\* PollGenerateReport whose handler also catches the KeyError
PollCatchesKeyError(resp) ==
    CASE resp.kind = "error" -> [exit |-> TRUE, raised |-> "none", ret |-> ""]
      [] resp.kind = "nokey" -> [exit |-> TRUE, raised |-> "none", ret |-> ""]
      [] resp.kind = "ok" ->
           IF resp.status = "Success"
             THEN [exit |-> TRUE, raised |-> "none", ret |-> resp.url]
             ELSE [exit |-> FALSE, raised |-> "none", ret |-> NoneVal]

\* PollGenerateReport that polls again after a failed request
PollRetriesFailedRequest(resp) ==
    CASE resp.kind = "error" -> [exit |-> FALSE, raised |-> "none", ret |-> NoneVal]
      [] resp.kind = "nokey" -> [exit |-> TRUE, raised |-> "KeyError", ret |-> NoneVal]
      [] resp.kind = "ok" ->
           IF resp.status = "Success"
             THEN [exit |-> TRUE, raised |-> "none", ret |-> resp.url]
             ELSE [exit |-> FALSE, raised |-> "none", ret |-> NoneVal]

\* one iteration of the while loop of poll_generate_report on the answer resp:
\* whether the method is left, what it returns or raises
PollGenerateReport(resp) ==
    CASE resp.kind = "error" -> [exit |-> TRUE, raised |-> "none", ret |-> ""]
      [] resp.kind = "nokey" -> [exit |-> TRUE, raised |-> "KeyError", ret |-> NoneVal]
      [] resp.kind = "ok" ->
           IF resp.status = "Success"
             THEN [exit |-> TRUE, raised |-> "none", ret |-> resp.url]
             ELSE [exit |-> FALSE, raised |-> "none", ret |-> NoneVal]

\* line 630: one request of the poll loop, with the sleep(30) that follows a
\* status other than 'Success'
Poll ==
    /\ pc = "poll"
    /\ calls' = [calls EXCEPT !.poll = @ + 1]
    /\ \E resp \in PollResponses(report_id) :
         LET res == PollGenerateReport(resp) IN
           /\ lastPoll' = [id |-> report_id, kind |-> resp.kind, status |-> resp.status,
                           url |-> resp.url]
           /\ IF ~res.exit
                THEN /\ sleeps < MaxSleeps
                     /\ sleeps' = sleeps + 1
                     /\ now' = now + SleepSecs
                     /\ failed' = IF resp.kind = "error" THEN "poll" ELSE failed
                     /\ UNCHANGED <<pc, idx, localVars, exc, ret, logged>>
              ELSE IF res.raised # "none"
                THEN Raise(res.raised) /\ failed' = "poll" /\ UNCHANGED <<now, sleeps>>
              ELSE /\ url' = res.ret
                   /\ pc' = "after_poll"
                   /\ failed' = IF resp.kind = "error" THEN "poll" ELSE failed
                   /\ logged' = IF resp.kind = "error"
                                  THEN "[poll_generate_report] API request failed" ELSE logged
                   /\ UNCHANGED <<idx, headers, report_id, downloaded_file, saved_file_path,
                                  exc, ret, now, sleeps>>
    /\ UNCHANGED <<tokenVars, tables, created, invoked, lastLoad, lastTok, saved>>

\* lines 679-682: no URL, the method returns True
NoUrl ==
    /\ pc = "after_poll"
    /\ ~Truthy(url)
    /\ ReturnDLR(TRUE, "[download_and_load_report] No URL found")
    /\ UNCHANGED <<tokenVars, now, tables, created, histVars, sleeps>>

-----------------------------------------------------------------------------
(* download_report, unzip_file *)

\* what the bytes served at a URL are: not a zip archive, an archive without a
\* .csv member, or an archive whose first .csv member is empty or holds the
\* rows of the report
ZipContent(kind, member, rows) == [kind |-> kind, member |-> member, rows |-> rows]

ZipContents(u) ==
    {ZipContent("notzip", "", <<>>),
     ZipContent("zip", "readme.txt", <<>>),
     ZipContent("zip", "report.csv", <<>>),
     ZipContent("zip", "report.csv", <<RowsAt(u)>>)}

\* download_report: None on any error, else the name of the zip it wrote
DownloadReport(report_type, ok, content) ==
    IF ~ok THEN NoFile ELSE [name |-> report_type \o ".zip", content |-> content]

\* lines 663-667
Download ==
    /\ pc = "after_poll"
    /\ Truthy(url)
    /\ calls' = [calls EXCEPT !.download = @ + 1]
    /\ \E ok \in BOOLEAN : \E content \in ZipContents(url) :
         LET f == DownloadReport(Cur, ok, content) IN
           IF f = NoFile
             THEN /\ failed' = "download"
                  /\ ReturnDLR(FALSE, "[download_and_load_report] Error downloading report")
             ELSE /\ downloaded_file' = f
                  /\ pc' = "unzip"
                  /\ logged' = "[download_and_load_report] Report downloaded successfully"
                  /\ UNCHANGED <<idx, headers, report_id, url, saved_file_path, exc, ret, failed>>
    /\ UNCHANGED <<tokenVars, now, tables, created, invoked, lastPoll, lastLoad, lastTok, saved, sleeps>>

\* unzip_file: the first member with extension .csv is extracted and its name
\* returned; None for a bad zip and for an archive without such a member
UnzipFile(f) ==
    IF f.content.kind = "zip" /\ f.content.member = "report.csv"
      THEN [name |-> f.content.member, content |-> f.content.rows]
      ELSE NoFile

\* lines 670-673
Unzip ==
    /\ pc = "unzip"
    /\ calls' = [calls EXCEPT !.unzip = @ + 1]
    /\ LET f == UnzipFile(downloaded_file) IN
         IF f = NoFile
           THEN /\ failed' = "unzip"
                /\ ReturnDLR(FALSE, "[download_and_load_report] Error saving downloaded file")
           ELSE /\ saved_file_path' = f
                /\ pc' = "load"
                /\ UNCHANGED <<idx, headers, report_id, url, downloaded_file, exc, ret,
                               logged, failed>>
    /\ UNCHANGED <<tokenVars, now, tables, created, invoked, lastPoll, lastLoad, lastTok, saved, sleeps>>

-----------------------------------------------------------------------------
(* write_to_bq *)

\* how a load can end: load_table_from_file raises, load_job.result() raises,
\* or the job completes
LoadOutcomes == {"start_error", "job_error", "done"}

\* WriteToBq with write_disposition WRITE_TRUNCATE
WriteToBqTruncate(file, table_id, tbls, outcome) ==
    IF Len(file.content) = 0
      THEN [ret |-> TRUE, job |-> "none", tables |-> tbls,
            log |-> "[write_table_to_bq] File is empty"]
    ELSE IF outcome = "done"
      THEN [ret |-> TRUE, job |-> outcome,
            tables |-> [tbls EXCEPT ![table_id] = file.content],
            log |-> "[write_table_to_bq] Successfully written table"]
    ELSE [ret |-> FALSE, job |-> outcome, tables |-> tbls,
          log |-> "[write_table_to_bq] Load failed"]

\* WriteToBq that takes a started load job for a completed one
WriteToBqIgnoresJobResult(file, table_id, tbls, outcome) ==
    IF Len(file.content) = 0
      THEN [ret |-> TRUE, job |-> "none", tables |-> tbls,
            log |-> "[write_table_to_bq] File is empty"]
    ELSE IF outcome \in {"done", "job_error"}
      THEN [ret |-> TRUE, job |-> outcome,
            tables |-> IF outcome = "done"
                         THEN [tbls EXCEPT ![table_id] = @ \o file.content]
                         ELSE tbls,
            log |-> "[write_table_to_bq] Successfully written table"]
    ELSE [ret |-> FALSE, job |-> outcome, tables |-> tbls,
          log |-> "[write_table_to_bq] Load failed"]

\* write_to_bq(file, table_id) with the warehouse answering outcome: the value
\* returned, the load job it started ("none" if it started none) and how that
\* ended, and the tables afterwards (WRITE_APPEND)
WriteToBq(file, table_id, tbls, outcome) ==
    IF Len(file.content) = 0
      THEN [ret |-> TRUE, job |-> "none", tables |-> tbls,
            log |-> "[write_table_to_bq] File is empty"]
    ELSE IF outcome = "done"
      THEN [ret |-> TRUE, job |-> outcome,
            tables |-> [tbls EXCEPT ![table_id] = @ \o file.content],
            log |-> "[write_table_to_bq] Successfully written table"]
    ELSE [ret |-> FALSE, job |-> outcome, tables |-> tbls,
          log |-> "[write_table_to_bq] Load failed"]

\* create_disposition CREATE_IF_NEEDED: the tables that exist after a load job
\* into table_id has completed
CreateIfNeeded(existing, table_id) == existing \cup {table_id}

\* lines 675-682
Load ==
    /\ pc = "load"
    /\ calls' = [calls EXCEPT !.load = @ + 1]
    /\ \E outcome \in LoadOutcomes :
         LET res == WriteToBq(saved_file_path, TableOf(Cur), tables, outcome) IN
           /\ tables' = res.tables
           /\ created' = IF res.job = "done" THEN CreateIfNeeded(created, TableOf(Cur))
                          ELSE created
           /\ lastLoad' = [called |-> TRUE, job |-> res.job, ret |-> res.ret]
           /\ IF ~res.ret
                THEN /\ failed' = "load"
                     /\ ReturnDLR(FALSE, "[download_and_load_report] Error loading report to BQ")
                ELSE /\ failed' = failed
                     /\ ReturnDLR(TRUE, "[download_and_load_report] report loaded successfully to BQ")
    /\ UNCHANGED <<tokenVars, now, invoked, lastPoll, lastTok, saved, sleeps>>

-----------------------------------------------------------------------------
(* The end of start(), stop() and the return to main() *)

\* Catches as "except KeyError"
CatchesKeyErrorOnly(e) == e = "KeyError"

\* "except Exception" of start(): every exception the steps raise is one
Catches(e) == e \in {"AttributeError", "ValueError", "KeyError", "TypeError"}

\* the for loop is exhausted
LoopEnd ==
    /\ pc = "loop"
    /\ idx > Len(ReportOrder)
    /\ pc' = "finally"
    /\ UNCHANGED <<idx, tokenVars, now, localVars, tables, created, exc, ret, histVars, sleeps, logged>>

\* lines 763-764
StartExcept ==
    /\ pc = "except"
    /\ IF Catches(exc)
         THEN exc' = "none" /\ logged' = "[start] Error"
         ELSE UNCHANGED <<exc, logged>>
    /\ pc' = "finally"
    /\ UNCHANGED <<idx, tokenVars, now, localVars, tables, created, ret, histVars, sleeps>>

\* lines 765-778: stop() closes the logger and removes the downloads folder;
\* whatever it raises it catches itself.  Then start() returns, or the
\* exception it did not catch goes on to main().
Stop ==
    /\ pc = "finally"
    /\ \E downloads_exists \in BOOLEAN :
         logged' = IF downloads_exists THEN logged ELSE "[stop] Error"
    /\ pc' = IF exc = "none" THEN "returned" ELSE "propagated"
    /\ UNCHANGED <<idx, tokenVars, now, localVars, tables, created, exc, ret, histVars, sleeps>>

\* main(), line 11
MainFinish ==
    /\ pc = "returned"
    /\ pc' = "done"
    /\ logged' = "Finished successfully."
    /\ UNCHANGED <<idx, tokenVars, now, localVars, tables, created, exc, ret, histVars, sleeps>>

-----------------------------------------------------------------------------

Next ==
    \/ Start
    \/ Enter
    \/ LoadTokensStep
    \/ CachedToken
    \/ Refresh
    \/ Submit
    \/ Poll
    \/ NoUrl
    \/ Download
    \/ Unzip
    \/ Load
    \/ LoopEnd
    \/ StartExcept
    \/ Stop
    \/ MainFinish

Spec == Init /\ [][Next]_vars

-----------------------------------------------------------------------------
(* Properties *)

\* the positions inside download_and_load_report
InCall == {"get_access_token", "token_check", "submit", "poll", "after_poll", "unzip", "load"}

\* the step s of download_and_load_report is attempted by this transition
Attempt(s) == calls'[s] = calls[s] + 1

\* C1: the steps of download_and_load_report run in the order submit, poll,
\* download, unzip, load, and a step is started only after the one before it
\* succeeded: a poll needs a non-empty ReportRequestId, a download a non-empty
\* download URL, an unzip the zip file the download wrote, and write_to_bq the
\* CSV file the unzip extracted.
C1_StepOrder ==
    [][ /\ Attempt("submit") =>
             calls = NoCalls /\ headers \notin {NoneVal, ""}
        /\ Attempt("poll") =>
             /\ calls.submit = 1 /\ calls.download = 0
             /\ report_id \notin {NoneVal, ""}
        /\ Attempt("download") =>
             /\ calls.submit = 1 /\ calls.poll >= 1 /\ calls.unzip = 0
             /\ lastPoll.status = "Success"
             /\ url \notin {NoneVal, ""}
        /\ Attempt("unzip") =>
             /\ calls.download = 1 /\ calls.load = 0
             /\ downloaded_file.name = ReportOrder[idx] \o ".zip"
        /\ Attempt("load") =>
             /\ calls.unzip = 1
             /\ downloaded_file.content.kind = "zip"
             /\ downloaded_file.content.member = "report.csv"
             /\ saved_file_path = [name |-> "report.csv",
                                   content |-> downloaded_file.content.rows]
      ]_vars

\* C1 witness: an invocation that went through all five steps, polling twice
C1_Witness ==
    /\ calls.submit = 1 /\ calls.poll = 2 /\ calls.download = 1
    /\ calls.unzip = 1 /\ calls.load = 1
    /\ ret = TRUE

\* C2: in one run download_and_load_report is invoked at most once per report
\* type, in the order campaign, adgroup, account, ad, asset, audience,
\* conversion, and every row of a table is a row of the report type the table
\* is configured for.
C2_OncePerTypeOwnTable ==
    LET order == <<"campaign", "adgroup", "account", "ad", "asset", "audience", "conversion">>
        own == [CAMPAIGN_PERFORMANCE_TABLE   |-> "campaign",
                ADGROUP_PERFORMANCE_TABLE    |-> "adgroup",
                ACCOUNT_PERFORMANCE_TABLE    |-> "account",
                AD_PERFORMANCE_TABLE         |-> "ad",
                ASSET_PERFORMANCE_TABLE      |-> "asset",
                AUDIENCE_PERFORMANCE_TABLE   |-> "audience",
                CONVERSION_PERFORMANCE_TABLE |-> "conversion"]
    IN  /\ \A k \in DOMAIN invoked : invoked[k] <= 1
        /\ \A i \in 1..7 :
             /\ i < idx => invoked[order[i]] = 1
             /\ i > idx => invoked[order[i]] = 0
             /\ (i = idx /\ pc \in InCall) => invoked[order[i]] = 1
        /\ DOMAIN tables = DOMAIN own
        /\ \A t \in DOMAIN tables : \A n \in 1..Len(tables[t]) :
             tables[t][n] = RowsOf(own[t])

\* C2 witness: a finished run that loaded the adgroup and the account report
C2_Witness ==
    /\ pc = "done"
    /\ Len(tables["ADGROUP_PERFORMANCE_TABLE"]) = 1
    /\ Len(tables["ACCOUNT_PERFORMANCE_TABLE"]) = 1

\* C3: poll_generate_report returns a non-empty URL only on a response with
\* status 'Success' to a poll of the submitted report id, and then the
\* ReportDownloadUrl of that response; on a response with any other status it
\* stays in the loop, with the same report id.
C3_PollReturnsSuccessUrl ==
    [][ pc = "poll" =>
          /\ lastPoll'.id = report_id
          /\ report_id = "rid-" \o BodyOf(ReportOrder[idx])
          /\ (pc' = "after_poll" /\ url' \notin {NoneVal, ""}) =>
                /\ lastPoll'.status = "Success"
                /\ url' = lastPoll'.url
          /\ (lastPoll'.kind = "ok" /\ lastPoll'.status # "Success") =>
                /\ pc' = "poll"
                /\ report_id' = report_id
      ]_vars

\* C3 witness: a URL returned after a response with another status
C3_Witness ==
    /\ pc = "after_poll"
    /\ calls.poll = 2
    /\ url = "url-rid-AdPerformanceReportRequest"

\* C4 as claimed: the only exit of the poll loop is a 'Success' status, so a
\* call of poll_generate_report that returns has seen that status and is ready.
C4_OnlyExitIsSuccess ==
    [][ (pc = "poll" /\ pc' = "after_poll") => lastPoll'.status = "Success" ]_vars

\* C4 as amended: the loop stays pending on a status other than 'Success',
\* sleeping 30 seconds, and has three exits: ready on 'Success' with the URL of
\* that response, a return of the empty URL on a failed poll request, and a
\* KeyError on a response without ReportRequestStatus.
C4_PollExits ==
    [][ pc = "poll" =>
          \/ /\ pc' = "poll"
             /\ lastPoll'.kind = "ok" /\ lastPoll'.status # "Success"
             /\ now' = now + 30
          \/ /\ pc' = "after_poll"
             /\ lastPoll'.kind = "ok" /\ lastPoll'.status = "Success"
             /\ url' = lastPoll'.url
          \/ /\ pc' = "after_poll"
             /\ lastPoll'.kind = "error"
             /\ url' = ""
          \/ /\ pc' = "except"
             /\ lastPoll'.kind = "nokey"
             /\ exc' = "KeyError"
      ]_vars

\* C4 witness: the loop left by a failed request after a pending poll
C4_Witness ==
    /\ pc = "after_poll"
    /\ calls.poll = 2
    /\ lastPoll.kind = "error"
    /\ url = ""

\* C5: within one invocation the submit request, the download, the unzip and
\* the load are each attempted at most once, no report type is invoked twice,
\* and once a step has failed (a failed poll request included) no step of the
\* invocation is attempted any more.
C5_NoRetries ==
    /\ [](/\ calls.submit <= 1 /\ calls.download <= 1
          /\ calls.unzip <= 1 /\ calls.load <= 1
          /\ \A k \in DOMAIN invoked : invoked[k] <= 1)
    /\ [][ failed # "none" =>
             \/ calls' = calls
             \/ /\ pc = "loop" /\ idx' = idx /\ idx <= 7
                /\ invoked[ReportOrder[idx]] = 0
                /\ calls' = NoCalls ]_vars

\* C5 witness: the poll request failed after the submit, and the invocation
\* has returned without a download
C5_Witness ==
    /\ failed = "poll"
    /\ pc = "loop"
    /\ calls.submit = 1 /\ calls.poll = 2 /\ calls.download = 0

\* C6: an exception raised while start() processes the report types is caught
\* and logged by start(), and start() returns normally to main(): no exception
\* leaves it.
C6_StartCatchesAll ==
    /\ [](/\ pc # "propagated"
          /\ pc \in {"finally", "returned", "done"} => exc = "none")
    /\ [][ pc = "except" =>
             /\ exc \in {"AttributeError", "ValueError", "KeyError"}
             /\ pc' = "finally"
             /\ exc' = "none"
             /\ logged' = "[start] Error" ]_vars

\* C6 witness: start() has returned to main() from a run in which the submit of
\* the third report type raised
C6_Witness ==
    /\ pc = "returned"
    /\ idx = 3
    /\ failed = "submit"
    /\ logged = "[start] Error"
    /\ exc = "none"

\* C7 as claimed: no step of download_and_load_report changes the token
\* fields or the token cache file.
C7_TokensUntouched ==
    [][ (pc \in InCall) => (tokenVars' = tokenVars) ]_vars

\* C7 as amended: the token fields and the cache file change only in the
\* get_headers step (the load of the cache and, when the loaded token is
\* empty or within 60 seconds of its expiry, the refresh); a loaded token that
\* is still good is returned without touching them, and the submit, poll,
\* download, unzip and load steps leave them as they were.
C7_TokensChangeOnlyInGetHeaders ==
    [][ /\ pc \notin {"get_access_token", "token_check"} =>
             tokenVars' = tokenVars
        /\ (/\ pc = "token_check"
            /\ access_token \notin {NoneVal, ""}
            /\ expires_at > now + 60) =>
             tokenVars' = tokenVars
      ]_vars

\* C7 witness: the second report type is being submitted with a token that
\* its own get_headers step obtained by a refresh, replacing the fields and the file
C7_Witness ==
    /\ pc = "submit"
    /\ idx = 2
    /\ lastTok.how = "refreshed"
    /\ headers = "at2"
    /\ cache.access_token = "at2"

\* C8 as claimed: get_access_token returns the cached token, without a
\* request, exactly when it is non-empty and expires more than 60 seconds
\* from now; otherwise it refreshes once; and every token it returns expires
\* more than 60 seconds after the moment of return.
C8_ReturnedTokenOutlivesMargin ==
    [][ pc = "token_check" =>
          /\ lastTok'.how = "cached" <=>
               (access_token \notin {NoneVal, ""} /\ expires_at > now + 60)
          /\ lastTok'.how = "cached" => lastTok'.requests = 0
          /\ lastTok'.how # "cached" => lastTok'.requests <= 1
          /\ lastTok'.token # NoneVal => expires_at' > now' + 60
      ]_vars

\* C8 as amended: the cached token is returned, without a request and with
\* fields and file untouched, exactly when it is non-empty and expires more
\* than 60 seconds from now, and then it does outlive that margin; otherwise
\* _refresh_access_token is called once, which raises without a request when
\* there is no refresh token and else sends one token request; a token
\* returned by a refresh is the one of the token response and expires
\* expires_in seconds from now, whatever expires_in the response gave.
C8_CachedOrRefreshedOnce ==
    [][ pc = "token_check" =>
          /\ lastTok'.how = "cached" <=>
               (access_token \notin {NoneVal, ""} /\ expires_at > now + 60)
          /\ lastTok'.how = "cached" =>
               /\ lastTok'.requests = 0
               /\ lastTok'.token = access_token
               /\ tokenVars' = tokenVars
               /\ expires_at' > now' + 60
          /\ lastTok'.how = "raised" =>
               /\ lastTok'.requests = 0
               /\ refresh_token \in {NoneVal, ""}
               /\ exc' = "ValueError"
          /\ lastTok'.how = "refreshed" =>
               /\ lastTok'.requests = 1
               /\ refresh_token \notin {NoneVal, ""}
               /\ lastTok'.token # NoneVal =>
                    /\ lastTok'.token = access_token'
                    /\ lastTok'.token \in AccessTokens
                    /\ \E e \in ExpiresIn : expires_at' = now' + e
      ]_vars

\* C8 witness: a refreshed token is in use that expired 60 seconds or less
\* after get_access_token returned it
C8_Witness ==
    /\ pc = "submit"
    /\ lastTok.how = "refreshed"
    /\ headers = access_token
    /\ headers \in AccessTokens
    /\ expires_at <= now + 60

\* C9: a load that follows a save restores the triple (access_token,
\* refresh_token, expires_at) that was saved, and after a successful refresh
\* the cache file holds the access token and the refresh token of the token
\* response, and the expiry, equal to the fields.
C9_SaveLoadRoundTrip ==
    [][ /\ (pc = "get_access_token" /\ saved) =>
             /\ pc' = "token_check"
             /\ access_token' = access_token
             /\ refresh_token' = refresh_token
             /\ expires_at' = expires_at
             /\ cache' = cache
        /\ (pc = "token_check" /\ lastTok'.how = "refreshed" /\ lastTok'.token # NoneVal) =>
             /\ saved'
             /\ cache'.kind = "object"
             /\ cache'.keys = {"access_token", "refresh_token", "expires_at"}
             /\ cache'.access_token = lastTok'.token
             /\ cache'.refresh_token = lastTok'.rotated
             /\ lastTok'.rotated \in RefreshTokens
             /\ access_token' = cache'.access_token
             /\ refresh_token' = cache'.refresh_token
             /\ expires_at' = cache'.expires_at
      ]_vars

\* C9 witness: the tokens saved by the refresh of one report type have been
\* loaded back for the next
C9_Witness ==
    /\ pc = "token_check"
    /\ idx = 2
    /\ saved
    /\ access_token = "at2" /\ refresh_token = "rt2" /\ expires_at = 120

\* C10: _load_tokens never raises: a missing file is logged and fields and
\* file stay as they were, a file that is not decodable JSON is logged and
\* deleted and the fields stay as they were, and from any other file the
\* three fields are set.
C10_LoadTokensNeverRaises ==
    [][ pc = "get_access_token" =>
          /\ pc' = "token_check"
          /\ exc' = "none"
          /\ cache.kind = "missing" =>
               /\ tokenVars' = tokenVars
               /\ logged' = "[_load_tokens] Cache file not found"
          /\ cache.kind = "undecodable" =>
               /\ cache'.kind = "missing"
               /\ <<access_token, refresh_token, expires_at>>'
                    = <<access_token, refresh_token, expires_at>>
               /\ logged' = "[_load_tokens] Error decoding cache file"
          /\ cache.kind \notin {"missing", "undecodable"} =>
               /\ cache' = cache
               /\ access_token' = IF "access_token" \in cache.keys
                                    THEN cache.access_token ELSE NoneVal
               /\ refresh_token' = IF "refresh_token" \in cache.keys
                                     THEN cache.refresh_token ELSE NoneVal
               /\ expires_at' = IF "expires_at" \in cache.keys
                                  THEN cache.expires_at ELSE 0
      ]_vars

C12_CreateIfNeededAppend ==
    [][ LET own == [campaign   |-> "CAMPAIGN_PERFORMANCE_TABLE",
                    adgroup    |-> "ADGROUP_PERFORMANCE_TABLE",
                    account    |-> "ACCOUNT_PERFORMANCE_TABLE",
                    ad         |-> "AD_PERFORMANCE_TABLE",
                    asset      |-> "ASSET_PERFORMANCE_TABLE",
                    audience   |-> "AUDIENCE_PERFORMANCE_TABLE",
                    conversion |-> "CONVERSION_PERFORMANCE_TABLE"]
            loaded == Attempt("load") /\ lastLoad'.job = "done"
        IN  /\ \A t \in DOMAIN tables :
                 /\ Len(tables'[t]) >= Len(tables[t])
                 /\ SubSeq(tables'[t], 1, Len(tables[t])) = tables[t]
                 /\ tables'[t] # tables[t] =>
                      loaded /\ t = own[ReportOrder[idx]]
            /\ created \subseteq created'
            /\ DOMAIN tables' = DOMAIN tables
            /\ loaded =>
                 /\ tables'[own[ReportOrder[idx]]] =
                        tables[own[ReportOrder[idx]]] \o saved_file_path.content
                 /\ created' = created \cup {own[ReportOrder[idx]]}
            /\ (Attempt("load") /\ ~loaded) =>
                 /\ tables' = tables
                 /\ created' = created
      ]_vars

\* C12 witness: the campaign table held the rows of an earlier run, and after
\* this run's load of the same report it holds them twice
C12_Witness ==
    /\ tables["CAMPAIGN_PERFORMANCE_TABLE"] = <<RowsOf("campaign"), RowsOf("campaign")>>
    /\ "CAMPAIGN_PERFORMANCE_TABLE" \in created
    /\ idx = 2
    /\ lastLoad.job = "done"
    /\ ret = TRUE

\* C13: a failure while processing one report type does not prevent the
\* remaining report types from being processed: when start() is over,
\* download_and_load_report has been invoked for every report type.
C13_EveryTypeInvoked ==
    pc \in {"finally", "returned", "propagated", "done"} =>
        \A i \in 1..Len(ReportOrder) : invoked[ReportOrder[i]] = 1

\* C14: download_and_load_report returns True only if the report was loaded:
\* it returns True when write_to_bq was called for the extracted CSV and
\* returned True, and False in every other outcome.
C14_TrueOnlyIfLoaded ==
    [][ (pc \in InCall /\ pc' = "loop") =>
          (ret' = TRUE) <=> (lastLoad'.called /\ lastLoad'.ret = TRUE)
      ]_vars

\* C15: every request sent to the reporting API (the submit request and each
\* poll request) carries an access token that has not expired at the time the
\* request is sent.
C15_RequestTokenUnexpired ==
    [][ (Attempt("submit") \/ Attempt("poll")) =>
          /\ headers = access_token
          /\ now < expires_at
      ]_vars

\* C16: a failed refresh changes nothing: when _refresh_access_token returns
\* None or raises ValueError, access_token, refresh_token, expires_at and the
\* token cache file are the same as before the call.
C16_FailedRefreshChangesNothing ==
    [][ (/\ pc = "token_check"
         /\ lastTok'.how \in {"refreshed", "raised"}
         /\ lastTok'.token = NoneVal) =>
          /\ access_token' = access_token
          /\ refresh_token' = refresh_token
          /\ expires_at' = expires_at
          /\ cache' = cache
      ]_vars

====
